---- MODULE Spec2Model ----
(***************************************************************************)
(* Frame lifecycle of the renderer: VRTRenderer (begin_frame / end_frame / *)
(* render-pass bracket / recreate_swapchain), the Swapchain's acquire and  *)
(* submit paths with their SyncObjects, the VRTWindow's extent and resized *)
(* flag, the GPU that retires submissions, and the host that queues resize *)
(* events for the event loop.                                              *)
(*                                                                         *)
(* Every renderer call is one action.  A call that blocks (fence wait) is  *)
(* enabled only when the wait can return.  A call that panics (unwrap on   *)
(* an Err) ends the process: status = "panicked".  A call whose loop can   *)
(* never exit leaves the only thread inside it: status = "hung".           *)
(*                                                                         *)
(* Two further specifications exercise the resource types on their own:    *)
(* BufferSpec runs VRTBuffer (new with get_alignment, map, unmap,          *)
(* write_to_buffer) from every argument triple within the bounds, and      *)
(* DescriptorSpec runs VRTDescriptorPool and VRTDescriptorWriter on every  *)
(* layout and pool within the bounds.  Each leaves the other parts idle.   *)
(***************************************************************************)
EXTENDS Integers, Naturals, Sequences, FiniteSets, TLC

\* ---------------------------------------------------------------- constants
MAX_FRAMES_IN_FLIGHT == 2
WINDOW_WIDTH == 800
WINDOW_HEIGHT == 600

\* ------------------------------------------------------------------- bounds
\* number of presentable images the platform hands out (K)
NumImages == 2
\* cap on the number of end_frame calls that run to completion
MaxEnded == 4
\* cap on resize events queued by the host and not yet dispatched
MaxEvents == 2

Slots == 0 .. (MAX_FRAMES_IN_FLIGHT - 1)
Images == 0 .. (NumImages - 1)

\* extents the host may report: <<width, height>>
Extents == { <<0, 0>>, <<0, 5>>, <<WINDOW_WIDTH, WINDOW_HEIGHT>> }

\* results of the platform's acquisition call, as seen by begin_frame
AcquireResults == { "SUCCESS", "ERROR_OUT_OF_DATE_KHR", "ERROR_DEVICE_LOST" }
\* results of reset_fences + queue_submit inside submit_command_buffer
SubmitResults == { "SUCCESS", "RESET_FAILED", "SUBMIT_FAILED" }
\* raw results of queue_present_khr
PresentResults == { "SUCCESS", "SUBOPTIMAL_KHR", "ERROR_OUT_OF_DATE_KHR", "ERROR_DEVICE_LOST" }

VARIABLES
    current_frame_index,   \* VRTRenderer.current_frame_index
    is_frame_started,      \* VRTRenderer.is_frame_started
    image_index,           \* VRTRenderer.image_index
    resized,               \* VRTWindow.resized
    width,                 \* VRTWindow.width
    height,                \* VRTWindow.height
    sync_current_frame,    \* Swapchain.sync.current_frame
    in_flight_fences,      \* Swapchain.sync.in_flight_fences: TRUE = signaled
    swapchain_extent,      \* extent the live swapchain was constructed with
    inflight,              \* submissions the GPU has not retired, oldest first
    events,                \* resize events queued by the host, oldest first
    status,                \* "running" | "panicked" | "hung"
    ended,                 \* number of end_frame calls that ran to completion
    last,                  \* the most recent call: name, result, API calls made
    ubo_unflushed,         \* slots whose UBO holds a host write not yet flushed
    cmd_render_pass,       \* render-pass state of the command buffer being recorded
    image_acquired_from,   \* swapchain image_index came from: "none" | "current" | "replaced"
    instance_size,         \* VRTBuffer.instance_size
    instance_count,        \* VRTBuffer.instance_count
    min_offset_alignment,  \* VRTBuffer::new's argument: << >> is None, << a >> is Some(a)
    alignment_size,        \* VRTBuffer.alignment_size
    buffer_size,           \* VRTBuffer.buffer_size
    mapped_memory,         \* VRTBuffer.mapped_memory: "None" | "Some"
    host_mapped,           \* the driver's view: the memory object is mapped
    buffer_last,           \* the most recent VRTBuffer call and what it did
    layout_bindings,       \* VRTDescriptorSetLayout.bindings, in add_binding order
    pool_max_sets,         \* max_sets the VRTDescriptorPool was created with
    pool_sizes,            \* descriptor_count per type the pool was created with
    pool_sets,             \* sets the device has allocated from the pool
    pool_used,             \* descriptors per type the device has allocated from it
    writer_open,           \* a VRTDescriptorWriter exists and has not been built
    writes,                \* VRTDescriptorWriter.writes
    descriptor_sets,       \* the allocated sets: the bindings written in each
    descriptor_last,       \* the most recent descriptor call and what it did
    surface_caps,          \* SurfaceCapabilitiesKHR: << min_image_count, max_image_count >>
    swapchain_obj,         \* the renderer's Swapchain value: live, generation, images
    handles_live,          \* device objects created and not destroyed
    handles_dead,          \* device objects destroyed
    swapchain_last,        \* the most recent Swapchain construction or drop
    draw_frame_pc          \* where VRTApp::draw_frame stands in the event loop

renderer_vars == << current_frame_index, is_frame_started, image_index >>
window_vars == << resized, width, height >>
swapchain_vars == << sync_current_frame, in_flight_fences, swapchain_extent >>
frame_vars == << current_frame_index, is_frame_started, image_index, resized, width,
                 height, sync_current_frame, in_flight_fences, swapchain_extent,
                 inflight, events, status, ended, last, ubo_unflushed,
                 cmd_render_pass, image_acquired_from >>
buffer_vars == << instance_size, instance_count, min_offset_alignment, alignment_size,
                  buffer_size, mapped_memory, host_mapped, buffer_last >>
descriptor_vars == << layout_bindings, pool_max_sets, pool_sizes, pool_sets, pool_used,
                      writer_open, writes, descriptor_sets, descriptor_last >>
surface_vars == << surface_caps, swapchain_obj, handles_live, handles_dead, swapchain_last >>
app_vars == << draw_frame_pc >>
vars == << frame_vars, buffer_vars, descriptor_vars, surface_vars, app_vars >>

\* one API call made by a handler: the indices it was given and what it returned
Call(name, args, ret) == [call |-> name, args |-> args, ret |-> ret]

Called(steps, name) == \E i \in 1 .. Len(steps) : steps[i].call = name

CountCalls(steps, name) == Cardinality({ i \in 1 .. Len(steps) : steps[i].call = name })

\* position of the first call of that name, 0 when there is none
FirstCall(steps, name) ==
    IF Called(steps, name)
    THEN CHOOSE i \in 1 .. Len(steps) :
            /\ steps[i].call = name
            /\ \A j \in 1 .. (i - 1) : steps[j].call # name
    ELSE 0

\* what the first call of that name returned
RetOf(steps, name) == steps[FirstCall(steps, name)].ret

Record(op, res, slot, steps) == [op |-> op, res |-> res, slot |-> slot, steps |-> steps]

\* VRTWindow::get_extent
get_extent == << width, height >>

\* VRTWindow::was_window_resized
was_window_resized == resized

Degenerate(e) == e[1] = 0 \/ e[2] = 0

\* variant: the fences are created without the SIGNALED flag
create_sync_objects_unsignaled == [ i \in Slots |-> FALSE ]

\* Swapchain::create_sync_objects: every fence is created signaled
create_sync_objects == [ i \in Slots |-> TRUE ]

\* the slot whose sync triple acquire and submit use
sync_slot == sync_current_frame

\* no VRTBuffer call is under way
BufferIdle ==
    /\ instance_size = 0
    /\ instance_count = 0
    /\ min_offset_alignment = << >>
    /\ alignment_size = 0
    /\ buffer_size = 0
    /\ mapped_memory = "None"
    /\ host_mapped = FALSE
    /\ buffer_last = [op |-> "idle"]

DescriptorTypes == { "UNIFORM_BUFFER", "STORAGE_BUFFER" }

\* no descriptor call is under way
DescriptorIdle ==
    /\ layout_bindings = << >>
    /\ pool_max_sets = 0
    /\ pool_sizes = [ ty \in DescriptorTypes |-> 0 ]
    /\ pool_sets = 0
    /\ pool_used = [ ty \in DescriptorTypes |-> 0 ]
    /\ writer_open = FALSE
    /\ writes = << >>
    /\ descriptor_sets = << >>
    /\ descriptor_last = [op |-> "idle"]

\* no Swapchain construction is under way
SurfaceIdle ==
    /\ surface_caps = << 0, 0 >>
    /\ swapchain_obj = [live |-> FALSE, gen |-> 0, images |-> 0]
    /\ handles_live = { }
    /\ handles_dead = { }
    /\ swapchain_last = [op |-> "idle"]

\* the renderer is driven call by call, not by VRTApp::draw_frame
AppIdle == draw_frame_pc = "free"

\* the renderer, window and swapchain after VRTRenderer::new
FrameInit ==
    /\ current_frame_index = 0
    /\ is_frame_started = FALSE
    /\ image_index = 0
    /\ resized = FALSE
    /\ width = WINDOW_WIDTH
    /\ height = WINDOW_HEIGHT
    /\ sync_current_frame = 0
    /\ in_flight_fences = create_sync_objects
    /\ swapchain_extent = << WINDOW_WIDTH, WINDOW_HEIGHT >>
    /\ inflight = << >>
    /\ events = << >>
    /\ status = "running"
    /\ ended = 0
    /\ last = Record("new", "Ok", 0, << >>)
    /\ ubo_unflushed = { }
    /\ cmd_render_pass = "none"
    /\ image_acquired_from = "none"

Init ==
    /\ FrameInit
    /\ BufferIdle
    /\ DescriptorIdle
    /\ SurfaceIdle
    /\ AppIdle

\* ------------------------------------------------------------ VRTRenderer
\* variant: begin_frame without the already-started test
begin_frame_rejected_never == FALSE

\* begin_frame's first test: a frame is already started
begin_frame_rejected == is_frame_started = TRUE

\* variant: end_frame without the not-started test
end_frame_rejected_never == FALSE

\* end_frame's first test: no frame is started
end_frame_rejected == ~is_frame_started

\* variant: acquire_next_image goes on without waiting for the fence
wait_for_fences_skipped == TRUE

\* acquire_next_image blocks in wait_for_fences until the fence is signaled
wait_for_fences == in_flight_fences[sync_slot]

\* variant: begin_frame without the ERROR_OUT_OF_DATE_KHR arm
acquire_is_out_of_date_never(r) == FALSE

\* begin_frame's match arm that turns an acquire result into a rebuild
acquire_is_out_of_date(r) == r = "ERROR_OUT_OF_DATE_KHR"

\* variant: SUBOPTIMAL_KHR is left to the else branch
rebuild_needed_no_suboptimal(p) ==
    \/ p = "ERROR_OUT_OF_DATE_KHR"
    \/ was_window_resized

\* end_frame's test after submit_command_buffer returned the present result
rebuild_needed(p) ==
    \/ p = "ERROR_OUT_OF_DATE_KHR"
    \/ p = "SUBOPTIMAL_KHR"
    \/ was_window_resized

\* variant: the flag is left as it was
reset_resized_flag_kept == resized

\* VRTWindow::reset_resized_flag: the value it stores
reset_resized_flag == FALSE

\* variant: the index advances without wrapping at the last slot
next_frame_index_nowrap(i) == (i + 1) % (MAX_FRAMES_IN_FLIGHT + 1)

\* variant: the index is not advanced
next_frame_index_stuck(i) == i

\* end_frame's last statement
next_frame_index(i) == (i + 1) % MAX_FRAMES_IN_FLIGHT

\* the API calls acquire_next_image makes: the fence wait, then the acquisition
\* with the image-available semaphore
acquire_calls(r) ==
    << Call("wait_for_fences", << sync_slot >>, "SUCCESS"),
       Call("acquire_next_image_khr", << sync_slot >>, r) >>

\* variant: a pending resize skips the present
present_skipped_on_resize(s) == s = "SUCCESS" /\ ~was_window_resized

\* submit_command_buffer reaches queue_present_khr when neither reset_fences
\* nor queue_submit returned early through `?`
present_issued(s) == s = "SUCCESS"

\* variant: the fence is reset after the submit that is to signal it
submit_calls_reset_after_submit(s, p) ==
    (IF s = "RESET_FAILED" THEN << >>
     ELSE << Call("queue_submit", << sync_slot, sync_slot, sync_slot >>,
                  IF s = "SUBMIT_FAILED" THEN "ERROR_DEVICE_LOST" ELSE "SUCCESS") >>)
    \o << Call("reset_fences", << sync_slot >>,
               IF s = "RESET_FAILED" THEN "ERROR_DEVICE_LOST" ELSE "SUCCESS") >>
    \o (IF present_issued(s)
        THEN << Call("queue_present_khr", << sync_slot, image_index >>, p) >>
        ELSE << >>)

\* variant: the present does not wait for the semaphore the submit signals
submit_calls_present_unordered(s, p) ==
    << Call("reset_fences", << sync_slot >>,
            IF s = "RESET_FAILED" THEN "ERROR_DEVICE_LOST" ELSE "SUCCESS") >>
    \o (IF s = "RESET_FAILED" THEN << >>
        ELSE << Call("queue_submit", << sync_slot, sync_slot, sync_slot >>,
                     IF s = "SUBMIT_FAILED" THEN "ERROR_DEVICE_LOST" ELSE "SUCCESS") >>)
    \o (IF present_issued(s)
        THEN << Call("queue_present_khr",
                     << (sync_slot + 1) % MAX_FRAMES_IN_FLIGHT, image_index >>, p) >>
        ELSE << >>)

\* the API calls submit_command_buffer makes, up to the first failure:
\* reset_fences(fence), queue_submit(wait, signal, fence), queue_present_khr(wait, image)
submit_calls(s, p) ==
    << Call("reset_fences", << sync_slot >>,
            IF s = "RESET_FAILED" THEN "ERROR_DEVICE_LOST" ELSE "SUCCESS") >>
    \o (IF s = "RESET_FAILED" THEN << >>
        ELSE << Call("queue_submit", << sync_slot, sync_slot, sync_slot >>,
                     IF s = "SUBMIT_FAILED" THEN "ERROR_DEVICE_LOST" ELSE "SUCCESS") >>)
    \o (IF present_issued(s)
        THEN << Call("queue_present_khr", << sync_slot, image_index >>, p) >>
        ELSE << >>)

\* the API calls recreate_swapchain makes; the loop on a degenerate extent
\* re-reads the window's stored fields and so never leaves
recreate_calls ==
    << Call("recreate_swapchain", get_extent,
            IF Degenerate(get_extent) THEN "NEVER" ELSE "SUCCESS") >>
    \o (IF Degenerate(get_extent) THEN << >>
        ELSE << Call("device_wait_idle", << >>, "SUCCESS"),
                Call("create_swapchain", get_extent, "SUCCESS") >>)

\* the swapchain with its sync objects and the GPU work submitted through it
Device(cf, fences, extent, queue, hung) ==
    [current_frame |-> cf, fences |-> fences, extent |-> extent, queue |-> queue,
     hung |-> hung]

device_now ==
    Device(sync_current_frame, in_flight_fences, swapchain_extent, inflight, FALSE)

\* variant: the swapchain is replaced while submissions are still in flight
recreate_swapchain_no_wait(d) ==
    IF Degenerate(get_extent)
    THEN [d EXCEPT !.hung = TRUE]
    ELSE Device(0, create_sync_objects, get_extent, d.queue, FALSE)

\* variant: the new swapchain is built with the extent of the old one
recreate_swapchain_old_extent(d) ==
    IF Degenerate(get_extent)
    THEN [d EXCEPT !.hung = TRUE]
    ELSE Device(0, create_sync_objects, d.extent, << >>, FALSE)

\* recreate_swapchain: spin while the extent is degenerate, then wait for the
\* device to go idle and replace the swapchain (new sync objects)
recreate_swapchain(d) ==
    IF Degenerate(get_extent)
    THEN [d EXCEPT !.hung = TRUE]
    ELSE Device(0, create_sync_objects, get_extent, << >>, FALSE)

\* the command buffer submit_command_buffer puts into its SubmitInfo:
\* command_buffers[*image_index as usize], named here by its index
submit_info_command_buffer == image_index

\* variant: the submit goes out with a fence that was never reset
submit_command_buffer_no_reset(d, s) ==
    IF s = "SUCCESS"
    THEN [d EXCEPT !.queue = Append(d.queue, [slot |-> current_frame_index,
                                              cb |-> submit_info_command_buffer,
                                              fence |-> d.current_frame])]
    ELSE d

\* submit_command_buffer: reset the fence, then submit the frame's command
\* buffer with that fence (s tells which of the two calls fails, if any)
submit_command_buffer(d, s) ==
    IF s = "RESET_FAILED" THEN d
    ELSE IF s = "SUBMIT_FAILED"
    THEN [d EXCEPT !.fences[d.current_frame] = FALSE]
    ELSE [d EXCEPT !.fences[d.current_frame] = FALSE,
                   !.queue = Append(d.queue, [slot |-> current_frame_index,
                                              cb |-> submit_info_command_buffer,
                                              fence |-> d.current_frame])]

\* variant: the acquire resets the fence it waited on
acquire_next_image_resets_fence(d, r) == [d EXCEPT !.fences[d.current_frame] = FALSE]

\* acquire_next_image: waits on the fence and asks for an image; it resets no
\* fence and creates or destroys nothing, whatever the result r
acquire_next_image(d, r) == d

\* store a device value back into the variables
SetDevice(d) ==
    /\ sync_current_frame' = d.current_frame
    /\ in_flight_fences' = d.fences
    /\ swapchain_extent' = d.extent
    /\ inflight' = d.queue

\* what a rebuild makes of the stored image index: an index acquired from the
\* swapchain that is replaced belongs to no image of the new one
after_rebuild(from) == IF from = "current" THEN "replaced" ELSE from

BeginFrameStarted ==
    /\ last' = Record("begin_frame", "FrameAlreadyStarted", current_frame_index, << >>)
    /\ UNCHANGED << ubo_unflushed, cmd_render_pass, image_acquired_from, renderer_vars,
                    window_vars, swapchain_vars, inflight, events, status, ended >>

BeginFrameOutOfDate(r) ==
    LET d == recreate_swapchain(acquire_next_image(device_now, r)) IN
    /\ SetDevice(d)
    /\ status' = IF d.hung THEN "hung" ELSE "running"
    /\ last' = Record("begin_frame", IF d.hung THEN "Hung" ELSE "SwapChainExpired",
                      current_frame_index, acquire_calls(r) \o recreate_calls)
    /\ image_acquired_from' =
          IF d.hung THEN image_acquired_from ELSE after_rebuild(image_acquired_from)
    /\ UNCHANGED << ubo_unflushed, cmd_render_pass, renderer_vars, window_vars, events,
                    ended >>

BeginFrameAcquireFailed(r) ==
    /\ status' = "panicked"
    /\ last' = Record("begin_frame", "Panic", current_frame_index, acquire_calls(r))
    /\ UNCHANGED << ubo_unflushed, cmd_render_pass, image_acquired_from, renderer_vars,
                    window_vars, swapchain_vars, inflight, events, ended >>

BeginFrameAcquired(img, cb) ==
    /\ is_frame_started' = TRUE
    /\ image_index' = img
    /\ last' = Record("begin_frame", IF cb = "SUCCESS" THEN "Ok" ELSE "Vk",
                      current_frame_index,
                      acquire_calls("SUCCESS")
                      \o << Call("begin_command_buffer", << current_frame_index >>, cb) >>)
    /\ cmd_render_pass' = IF cb = "SUCCESS" THEN "none" ELSE cmd_render_pass
    /\ image_acquired_from' = "current"
    /\ UNCHANGED << ubo_unflushed, current_frame_index, window_vars, swapchain_vars,
                    inflight, events, status, ended >>

BeginFrame ==
    /\ status = "running"
    /\ IF begin_frame_rejected
       THEN BeginFrameStarted
       ELSE /\ wait_for_fences
            /\ \E r \in AcquireResults, img \in Images,
                  cb \in { "SUCCESS", "ERROR_OUT_OF_HOST_MEMORY" } :
                  IF acquire_is_out_of_date(r) THEN BeginFrameOutOfDate(r)
                  ELSE IF r = "SUCCESS" THEN BeginFrameAcquired(img, cb)
                  ELSE BeginFrameAcquireFailed(r)

EndFrameIdle ==
    /\ last' = Record("end_frame", "NotStarted", current_frame_index, << >>)
    /\ UNCHANGED << ubo_unflushed, cmd_render_pass, image_acquired_from, renderer_vars,
                    window_vars, swapchain_vars, inflight, events, status, ended >>

\* submit_command_buffer returned Err: the unwrap in end_frame panics
EndFrameSubmitFailed(s, p) ==
    /\ SetDevice(submit_command_buffer(device_now, s))
    /\ status' = "panicked"
    /\ last' = Record("end_frame", "Panic", current_frame_index,
                      << Call("end_command_buffer", << current_frame_index >>, "SUCCESS") >>
                      \o submit_calls(s, p))
    /\ UNCHANGED << ubo_unflushed, cmd_render_pass, image_acquired_from, renderer_vars,
                    window_vars, events, ended >>

\* presented; the rebuild branch of end_frame
EndFrameRebuild(s, p) ==
    LET d == recreate_swapchain(submit_command_buffer(device_now, s)) IN
    /\ SetDevice(d)
    /\ resized' = reset_resized_flag
    /\ status' = IF d.hung THEN "hung" ELSE "running"
    /\ is_frame_started' = IF d.hung THEN is_frame_started ELSE FALSE
    /\ current_frame_index' =
          IF d.hung THEN current_frame_index ELSE next_frame_index(current_frame_index)
    /\ ended' = IF d.hung THEN ended ELSE ended + 1
    /\ last' = Record("end_frame", IF d.hung THEN "Hung" ELSE "Ok", current_frame_index,
                      << Call("end_command_buffer", << current_frame_index >>, "SUCCESS") >>
                      \o submit_calls(s, p)
                      \o << Call("reset_resized_flag", << >>, "SUCCESS") >>
                      \o recreate_calls)
    /\ image_acquired_from' =
          IF d.hung THEN image_acquired_from ELSE after_rebuild(image_acquired_from)
    /\ UNCHANGED << ubo_unflushed, cmd_render_pass, image_index, width, height, events >>

\* presented; the else branch of end_frame: present_result.result().unwrap()
EndFramePresented(s, p) ==
    /\ SetDevice(submit_command_buffer(device_now, s))
    /\ status' = IF p = "SUCCESS" THEN "running" ELSE "panicked"
    /\ is_frame_started' = IF p = "SUCCESS" THEN FALSE ELSE is_frame_started
    /\ current_frame_index' =
          IF p = "SUCCESS" THEN next_frame_index(current_frame_index)
          ELSE current_frame_index
    /\ ended' = IF p = "SUCCESS" THEN ended + 1 ELSE ended
    /\ last' = Record("end_frame", IF p = "SUCCESS" THEN "Ok" ELSE "Panic",
                      current_frame_index,
                      << Call("end_command_buffer", << current_frame_index >>, "SUCCESS") >>
                      \o submit_calls(s, p))
    /\ UNCHANGED << ubo_unflushed, cmd_render_pass, image_acquired_from, image_index,
                    window_vars, events >>

EndFrame ==
    /\ status = "running"
    /\ IF end_frame_rejected
       THEN EndFrameIdle
       ELSE /\ ended < MaxEnded
            /\ \E s \in SubmitResults, p \in PresentResults :
                  IF s # "SUCCESS" THEN EndFrameSubmitFailed(s, p)
                  ELSE IF rebuild_needed(p) THEN EndFrameRebuild(s, p)
                  ELSE EndFramePresented(s, p)

\* what the command buffer holds after cmd_begin_render_pass is recorded: a
\* pass opened inside an open pass leaves it invalid for submission
after_cmd_begin_render_pass(st) == IF st = "none" THEN "open" ELSE "invalid"

\* what the command buffer holds after cmd_end_render_pass is recorded: ending
\* a pass that is not open leaves it invalid for submission
after_cmd_end_render_pass(st) == IF st = "open" THEN "none" ELSE "invalid"

\* variant: the render pass is begun whether or not a frame is started
render_pass_rejected_never == FALSE

\* the first test of begin_swapchain_render_pass: no frame is started
render_pass_rejected == is_frame_started = FALSE

\* variant: the framebuffer is picked by the frame slot
framebuffer_index_by_slot == current_frame_index

\* the framebuffer of the render pass: get_frame_buffer()[self.image_index]
framebuffer_index == image_index

\* begin_swapchain_render_pass: returns at once when no frame is started
BeginSwapchainRenderPass ==
    /\ status = "running"
    /\ last' = Record("begin_swapchain_render_pass",
                      IF render_pass_rejected THEN "NotStarted" ELSE "Ok",
                      current_frame_index,
                      IF render_pass_rejected
                      THEN << >>
                      ELSE << Call("cmd_begin_render_pass", << framebuffer_index >>, "SUCCESS"),
                              Call("cmd_set_viewport", swapchain_extent, "SUCCESS"),
                              Call("cmd_set_scissor", swapchain_extent, "SUCCESS") >>)
    /\ cmd_render_pass' = IF render_pass_rejected
                          THEN cmd_render_pass
                          ELSE after_cmd_begin_render_pass(cmd_render_pass)
    /\ UNCHANGED << ubo_unflushed, image_acquired_from, renderer_vars, window_vars,
                    swapchain_vars, inflight, events, status, ended >>

\* end_swapchain_render_pass: returns at once when no frame is started
EndSwapchainRenderPass ==
    /\ status = "running"
    /\ last' = Record("end_swapchain_render_pass",
                      IF is_frame_started THEN "Ok" ELSE "NotStarted",
                      current_frame_index,
                      IF is_frame_started
                      THEN << Call("cmd_end_render_pass", << >>, "SUCCESS") >>
                      ELSE << >>)
    /\ cmd_render_pass' = IF is_frame_started
                          THEN after_cmd_end_render_pass(cmd_render_pass)
                          ELSE cmd_render_pass
    /\ UNCHANGED << ubo_unflushed, image_acquired_from, renderer_vars, window_vars,
                    swapchain_vars, inflight, events, status, ended >>

\* ------------------------------------------------------------------ VRTApp
\* the memory properties VRTApp::new asks for when it creates the UBO buffers
ubo_memory_property_flags == { "HOST_VISIBLE" }

\* a host write to the UBO memory is visible to the device only after a flush
ubo_needs_flush == "HOST_COHERENT" \notin ubo_memory_property_flags

\* draw_frame writes the UBO of slot get_frame_index() after begin_frame has
\* returned a command buffer and before it calls end_frame; the flush that
\* followed the write is commented out
WriteUbo ==
    /\ status = "running"
    /\ is_frame_started
    /\ last' = Record("write_to_buffer", "Ok", current_frame_index,
                      << Call("write_to_buffer", << current_frame_index >>, "SUCCESS") >>)
    /\ ubo_unflushed' = IF ubo_needs_flush
                        THEN ubo_unflushed \cup { current_frame_index }
                        ELSE ubo_unflushed
    /\ UNCHANGED << cmd_render_pass, image_acquired_from, renderer_vars, window_vars,
                    swapchain_vars, inflight, events, status, ended >>

\* process_event dispatches a queued Resized event to VRTWindow::resize_callback;
\* the event loop only runs between the calls of the one thread
ResizeCallback ==
    /\ status = "running"
    /\ events # << >>
    /\ width' = Head(events)[1]
    /\ height' = Head(events)[2]
    /\ resized' = TRUE
    /\ events' = Tail(events)
    /\ last' = Record("resize_callback", "Ok", current_frame_index, << >>)
    /\ UNCHANGED << ubo_unflushed, cmd_render_pass, image_acquired_from, renderer_vars,
                    swapchain_vars, inflight, status, ended >>

\* ------------------------------------------------------------- environment
\* the host changes the window's size and queues the event
HostResize ==
    /\ Len(events) < MaxEvents
    /\ \E e \in Extents : events' = Append(events, e)
    /\ last' = Record("host_resize", "Ok", current_frame_index, << >>)
    /\ UNCHANGED << ubo_unflushed, cmd_render_pass, image_acquired_from, renderer_vars,
                    window_vars, swapchain_vars, inflight, status, ended >>

\* the GPU retires the oldest submission and signals the fence it was given
GpuComplete ==
    /\ inflight # << >>
    /\ in_flight_fences' = [in_flight_fences EXCEPT ![Head(inflight).fence] = TRUE]
    /\ inflight' = Tail(inflight)
    /\ last' = Record("gpu_complete", "Ok", Head(inflight).slot, << >>)
    /\ UNCHANGED << ubo_unflushed, cmd_render_pass, image_acquired_from, renderer_vars,
                    window_vars, sync_current_frame, swapchain_extent, events, status,
                    ended >>

\* the variables the frame loop does not touch
library_vars == << buffer_vars, descriptor_vars, surface_vars, app_vars >>

Next ==
    \/ BeginFrame /\ UNCHANGED library_vars
    \/ EndFrame /\ UNCHANGED library_vars
    \/ BeginSwapchainRenderPass /\ UNCHANGED library_vars
    \/ EndSwapchainRenderPass /\ UNCHANGED library_vars
    \/ WriteUbo /\ UNCHANGED library_vars
    \/ ResizeCallback /\ UNCHANGED library_vars
    \/ HostResize /\ UNCHANGED library_vars
    \/ GpuComplete /\ UNCHANGED library_vars

Spec == Init /\ [][Next]_vars

\* ------------------------------------------- window resizes and rebuilds
\* the host turns the window on its side and queues the event
HostResizeRotated ==
    /\ Len(events) < MaxEvents
    /\ events' = Append(events, << WINDOW_HEIGHT, WINDOW_WIDTH >>)
    /\ last' = Record("host_resize", "Ok", current_frame_index, << >>)
    /\ UNCHANGED << ubo_unflushed, cmd_render_pass, image_acquired_from, renderer_vars,
                    window_vars, swapchain_vars, inflight, status, ended >>

\* the frame scheduler and the window alone: frames begun and ended with
\* nothing recorded in between, resizes to either orientation at any point
ResizeNext ==
    \/ BeginFrame /\ UNCHANGED library_vars
    \/ EndFrame /\ UNCHANGED library_vars
    \/ ResizeCallback /\ UNCHANGED library_vars
    \/ HostResize /\ UNCHANGED library_vars
    \/ HostResizeRotated /\ UNCHANGED library_vars
    \/ GpuComplete /\ UNCHANGED library_vars

ResizeSpec == Init /\ [][ResizeNext]_vars

\* ------------------------------------------------- VRTApp: the render loop
\* the state when VRTApp::run enters the event loop: draw_frame is about to
\* run for the first RedrawRequested
AppInit ==
    /\ FrameInit
    /\ BufferIdle
    /\ DescriptorIdle
    /\ SurfaceIdle
    /\ draw_frame_pc = "tick"

\* where draw_frame goes after begin_frame(..).unwrap(): on with the frame
\* when a command buffer came back, out of the process through the panic of
\* unwrap on every Err; a begin_frame that never returns keeps it where it is
after_begin_frame_unwrap(res) ==
    CASE res = "Ok" -> "write"
      [] res = "Hung" -> "tick"
      [] OTHER -> "panicked"

\* draw_frame: let command_buffer = self.renderer.begin_frame(..).unwrap()
DrawFrameBegin ==
    /\ draw_frame_pc = "tick"
    /\ BeginFrame
    /\ draw_frame_pc' = after_begin_frame_unwrap(last'.res)

\* draw_frame: ubo_buffers[frame_index].write_to_buffer(..)
DrawFrameWriteUbo ==
    /\ draw_frame_pc = "write"
    /\ WriteUbo
    /\ draw_frame_pc' = "begin_pass"

\* draw_frame: begin_swapchain_render_pass(command_buffer), then the render
\* system records its draw calls
DrawFrameBeginPass ==
    /\ draw_frame_pc = "begin_pass"
    /\ BeginSwapchainRenderPass
    /\ draw_frame_pc' = "end_pass"

\* draw_frame: end_swapchain_render_pass(command_buffer)
DrawFrameEndPass ==
    /\ draw_frame_pc = "end_pass"
    /\ EndSwapchainRenderPass
    /\ draw_frame_pc' = "end_frame"

\* draw_frame: end_frame(window, command_buffer); Ok(()) ends the tick
DrawFrameEnd ==
    /\ draw_frame_pc = "end_frame"
    /\ EndFrame
    /\ draw_frame_pc' = IF status' = "panicked" THEN "panicked" ELSE "tick"

\* process_event handles a Resized event between two draws
ProcessResized ==
    /\ draw_frame_pc = "tick"
    /\ ResizeCallback
    /\ UNCHANGED draw_frame_pc

\* what draw_frame and the event loop leave alone
app_unused_vars == << buffer_vars, descriptor_vars, surface_vars >>

AppNext ==
    \/ DrawFrameBegin /\ UNCHANGED app_unused_vars
    \/ DrawFrameWriteUbo /\ UNCHANGED app_unused_vars
    \/ DrawFrameBeginPass /\ UNCHANGED app_unused_vars
    \/ DrawFrameEndPass /\ UNCHANGED app_unused_vars
    \/ DrawFrameEnd /\ UNCHANGED app_unused_vars
    \/ ProcessResized /\ UNCHANGED app_unused_vars
    \/ HostResize /\ UNCHANGED << app_unused_vars, app_vars >>
    \/ GpuComplete /\ UNCHANGED << app_unused_vars, app_vars >>

AppSpec == AppInit /\ [][AppNext]_vars

\* --------------------------------------------------------------- VRTBuffer
\* erupt's WHOLE_SIZE is !0u64; no instance size, count or offset equals it
WHOLE_SIZE == -1

\* largest instance_size given to VRTBuffer::new
MaxInstanceSize == 6
\* largest instance_count given to VRTBuffer::new
MaxInstanceCount == 2
\* largest min_offset_alignment given to VRTBuffer::new
MaxAlignment == 4
\* largest size_of::<T>() of the elements a write copies
MaxElemSize == 2

\* x & y on unsigned integers, bit by bit
RECURSIVE BitAnd(_, _)
BitAnd(x, y) ==
    IF x = 0 \/ y = 0 THEN 0
    ELSE (x % 2) * (y % 2) + 2 * BitAnd(x \div 2, y \div 2)

\* x & !m on u64: the bits of m are cleared in x
BitAndNot(x, m) == x - BitAnd(x, m)

\* VRTBuffer::get_alignment
get_alignment(instance_size_, min_offset_alignment_) ==
    IF min_offset_alignment_ > 0
    THEN BitAndNot(instance_size_ + min_offset_alignment_ - 1, min_offset_alignment_ - 1)
    ELSE instance_size_

\* Option::unwrap_or
unwrap_or(opt, default) == IF opt = << >> THEN default ELSE opt[1]

\* the arguments of a VRTBuffer::new that is about to run
BufferInit ==
    /\ FrameInit
    /\ DescriptorIdle
    /\ SurfaceIdle
    /\ AppIdle
    /\ instance_size \in 1 .. MaxInstanceSize
    /\ instance_count \in 1 .. MaxInstanceCount
    /\ min_offset_alignment \in { << >> } \cup { << a >> : a \in 0 .. MaxAlignment }
    /\ alignment_size = 0
    /\ buffer_size = 0
    /\ mapped_memory = "None"
    /\ host_mapped = FALSE
    /\ buffer_last = [op |-> "args"]

\* the process is still running the buffer's owner
buffer_alive ==
    /\ buffer_last.op \notin { "args", "idle" }
    /\ buffer_last.res = "Ok"

\* VRTBuffer::new: create_buffer(..).unwrap() panics when the device refuses
VRTBufferNew ==
    /\ buffer_last.op = "args"
    /\ \E r \in { "SUCCESS", "ERROR_OUT_OF_DEVICE_MEMORY" } :
          /\ alignment_size' = get_alignment(instance_size, unwrap_or(min_offset_alignment, 1))
          /\ buffer_size' = alignment_size' * instance_count
          /\ buffer_last' = [op |-> "new", res |-> IF r = "SUCCESS" THEN "Ok" ELSE "Panic"]
    /\ UNCHANGED << instance_size, instance_count, min_offset_alignment, mapped_memory,
                    host_mapped >>

\* VRTBuffer::map: map_memory(..).result().unwrap(), then the pointer is stored
VRTBufferMap ==
    /\ buffer_alive
    /\ ~host_mapped
    /\ \E r \in { "SUCCESS", "ERROR_MEMORY_MAP_FAILED" } :
          /\ mapped_memory' = IF r = "SUCCESS" THEN "Some" ELSE mapped_memory
          /\ host_mapped' = (r = "SUCCESS")
          /\ buffer_last' = [op |-> "map", res |-> IF r = "SUCCESS" THEN "Ok" ELSE "Panic"]
    /\ UNCHANGED << instance_size, instance_count, min_offset_alignment, alignment_size,
                    buffer_size >>

\* VRTBuffer::unmap: unmap_memory; the stored pointer is left as it is
VRTBufferUnmap ==
    /\ buffer_alive
    /\ host_mapped
    /\ host_mapped' = FALSE
    /\ buffer_last' = [op |-> "unmap", res |-> "Ok"]
    /\ UNCHANGED << instance_size, instance_count, min_offset_alignment, alignment_size,
                    buffer_size, mapped_memory >>

\* the number of elements write_to_buffer copies
copy_count(size) == IF size = WHOLE_SIZE THEN buffer_size ELSE size

\* the first byte write_to_buffer copies to, relative to the pointer it is given
copy_offset(size, offset) == IF size = WHOLE_SIZE THEN 0 ELSE offset

\* copy_nonoverlapping is defined when its destination is mapped memory of the
\* buffer for the whole length copied
copy_defined(size, offset, elem) ==
    /\ host_mapped
    /\ copy_offset(size, offset) + copy_count(size) * elem <= buffer_size

\* the call every writer in the repository makes:
\*   b.write_to_buffer(data, b.get_mapped_memory().unwrap(), size, offset)
\* The unwrap panics on None.  write_to_buffer itself tests nothing; a copy to
\* an address that is not mapped memory of the buffer is undefined: it may go
\* through or fault.
VRTBufferWrite ==
    /\ buffer_alive
    /\ \E size \in { WHOLE_SIZE } \cup (1 .. MaxInstanceCount),
          offset \in { 0, alignment_size },
          elem \in 1 .. MaxElemSize,
          outcome \in { "Ok", "Fault" } :
          /\ (outcome = "Fault") => (mapped_memory = "Some" /\ ~copy_defined(size, offset, elem))
          /\ buffer_last' =
                IF mapped_memory = "None"
                THEN [op |-> "write_to_buffer", res |-> "Panic", mapped |-> host_mapped,
                      first |-> 0, bytes |-> 0]
                ELSE [op |-> "write_to_buffer", res |-> outcome, mapped |-> host_mapped,
                      first |-> copy_offset(size, offset),
                      bytes |-> IF outcome = "Ok" THEN copy_count(size) * elem ELSE 0]
    /\ UNCHANGED << instance_size, instance_count, min_offset_alignment, alignment_size,
                    buffer_size, mapped_memory, host_mapped >>

BufferNext ==
    \/ VRTBufferNew /\ UNCHANGED << frame_vars, descriptor_vars, surface_vars, app_vars >>
    \/ VRTBufferMap /\ UNCHANGED << frame_vars, descriptor_vars, surface_vars, app_vars >>
    \/ VRTBufferUnmap /\ UNCHANGED << frame_vars, descriptor_vars, surface_vars, app_vars >>
    \/ VRTBufferWrite /\ UNCHANGED << frame_vars, descriptor_vars, surface_vars, app_vars >>

BufferSpec == BufferInit /\ [][BufferNext]_vars

\* ------------------------------------- VRTDescriptorPool, VRTDescriptorWriter
\* largest number of bindings a layout declares; binding numbers are below it
MaxBindings == 2
\* largest max_sets a pool is created with
MaxSets == 2
\* largest descriptor_count per type a pool is created with
MaxPoolSize == 2
\* largest number of writes a writer accumulates
MaxWrites == 2

Bindings == 0 .. (MaxBindings - 1)

\* what VRTDescriptorSetLayoutBuilder::add_binding pushes (descriptor_count 1)
LayoutBinding == [ binding : Bindings, descriptor_type : DescriptorTypes ]

\* the layouts a builder can produce: each binding number added once, in any order
Layouts ==
    { l \in UNION { [ 1 .. n -> LayoutBinding ] : n \in 1 .. MaxBindings } :
         \A i, j \in DOMAIN l : i # j => l[i].binding # l[j].binding }

\* a layout, a pool and a fresh writer on them
DescriptorInit ==
    /\ FrameInit
    /\ BufferIdle
    /\ SurfaceIdle
    /\ AppIdle
    /\ layout_bindings \in Layouts
    /\ pool_max_sets \in 1 .. MaxSets
    /\ \E n \in 1 .. MaxPoolSize : pool_sizes = [ ty \in DescriptorTypes |-> n ]
    /\ pool_sets = 0
    /\ pool_used = [ ty \in DescriptorTypes |-> 0 ]
    /\ writer_open = TRUE
    /\ writes = << >>
    /\ descriptor_sets = << >>
    /\ descriptor_last = [op |-> "new", res |-> "Ok"]

descriptor_alive ==
    /\ descriptor_last.op # "idle"
    /\ descriptor_last.res # "Panic"

\* descriptors of one type a set of the layout takes from the pool
descriptors_needed(ty) ==
    Cardinality({ i \in DOMAIN layout_bindings : layout_bindings[i].descriptor_type = ty })

\* the pool cannot supply one more set of the layout
pool_exhausted ==
    \/ pool_sets >= pool_max_sets
    \/ \E ty \in DescriptorTypes : pool_used[ty] + descriptors_needed(ty) > pool_sizes[ty]

\* what the device's allocate_descriptor_sets returns (r: its result when the
\* pool still has room)
allocate_descriptor_sets(r) == IF pool_exhausted THEN "ERROR_OUT_OF_POOL_MEMORY" ELSE r

\* VRTDescriptorPool::allocate_descriptor: Some(allocate_descriptor_sets(..).unwrap())
allocate_descriptor(r) ==
    IF allocate_descriptor_sets(r) = "SUCCESS" THEN "Some" ELSE "Panic"

\* the device's pool after allocate_descriptor_sets
PoolAfter(r) ==
    IF allocate_descriptor_sets(r) = "SUCCESS"
    THEN /\ pool_sets' = pool_sets + 1
         /\ pool_used' = [ ty \in DescriptorTypes |-> pool_used[ty] + descriptors_needed(ty) ]
    ELSE UNCHANGED << pool_sets, pool_used >>

\* a direct call of the pool
VRTDescriptorPoolAllocate ==
    /\ descriptor_alive
    /\ \E r \in { "SUCCESS", "ERROR_OUT_OF_HOST_MEMORY" } :
          /\ PoolAfter(r)
          /\ descriptor_sets' = IF allocate_descriptor(r) = "Some"
                                THEN Append(descriptor_sets, { })
                                ELSE descriptor_sets
          /\ descriptor_last' = [op |-> "allocate_descriptor", res |-> allocate_descriptor(r),
                                 exhausted |-> pool_exhausted]
    /\ UNCHANGED << layout_bindings, pool_max_sets, pool_sizes, writer_open, writes >>

\* VRTDescriptorWriter::new
VRTDescriptorWriterNew ==
    /\ descriptor_alive
    /\ ~writer_open
    /\ writer_open' = TRUE
    /\ writes' = << >>
    /\ descriptor_last' = [op |-> "writer_new", res |-> "Ok"]
    /\ UNCHANGED << layout_bindings, pool_max_sets, pool_sizes, pool_sets, pool_used,
                    descriptor_sets >>

\* VRTDescriptorWriter::write_buffer: self.layout.bindings[binding as usize]
\* indexes the Vec by position and panics past its end
VRTDescriptorWriterWriteBuffer ==
    /\ descriptor_alive
    /\ writer_open
    /\ Len(writes) < MaxWrites
    /\ \E binding \in 0 .. MaxBindings :
          IF binding + 1 \in DOMAIN layout_bindings
          THEN /\ writes' = Append(writes,
                        [descriptor_type |-> layout_bindings[binding + 1].descriptor_type,
                         dst_binding |-> binding, dst_set |-> 0])
               /\ descriptor_last' = [op |-> "write_buffer", res |-> "Ok"]
          ELSE /\ writes' = writes
               /\ descriptor_last' = [op |-> "write_buffer", res |-> "Panic"]
    /\ UNCHANGED << layout_bindings, pool_max_sets, pool_sizes, pool_sets, pool_used,
                    writer_open, descriptor_sets >>

\* build's writes.iter().zip(&descriptor_sets).map(|(w, s)| w.dst_set(*s)).collect():
\* the i-th write paired with the i-th set, as many as the shorter has
zip_writes(ws, sets) ==
    LET n == IF Len(ws) < Len(sets) THEN Len(ws) ELSE Len(sets) IN
    [ i \in 1 .. n |-> [ ws[i] EXCEPT !.dst_set = sets[i] ] ]

\* VRTDescriptorWriter::build: allocate one set of the layout, pair the writes
\* with the allocated sets, one update_descriptor_sets call, return the sets
VRTDescriptorWriterBuild ==
    /\ descriptor_alive
    /\ writer_open
    /\ \E r \in { "SUCCESS", "ERROR_OUT_OF_HOST_MEMORY" } :
          LET id == Len(descriptor_sets) + 1
              applied == zip_writes(writes, << id >>) IN
          /\ PoolAfter(r)
          /\ IF allocate_descriptor(r) = "Some"
             THEN /\ writer_open' = FALSE
                  /\ writes' = applied
                  /\ descriptor_sets' =
                        Append(descriptor_sets,
                               { applied[i].dst_binding : i \in DOMAIN applied })
                  /\ descriptor_last' =
                        [op |-> "build", res |-> "Some", exhausted |-> pool_exhausted,
                         set |-> id, given |-> writes, applied |-> applied, updates |-> 1]
             ELSE /\ UNCHANGED << writer_open, writes, descriptor_sets >>
                  /\ descriptor_last' =
                        [op |-> "build", res |-> "Panic", exhausted |-> pool_exhausted,
                         set |-> 0, given |-> writes, applied |-> << >>, updates |-> 0]
    /\ UNCHANGED << layout_bindings, pool_max_sets, pool_sizes >>

DescriptorNext ==
    \/ VRTDescriptorPoolAllocate
          /\ UNCHANGED << frame_vars, buffer_vars, surface_vars, app_vars >>
    \/ VRTDescriptorWriterNew /\ UNCHANGED << frame_vars, buffer_vars, surface_vars, app_vars >>
    \/ VRTDescriptorWriterWriteBuffer
          /\ UNCHANGED << frame_vars, buffer_vars, surface_vars, app_vars >>
    \/ VRTDescriptorWriterBuild /\ UNCHANGED << frame_vars, buffer_vars, surface_vars, app_vars >>

DescriptorSpec == DescriptorInit /\ [][DescriptorNext]_vars

\* ------------------------------------ Swapchain: construction and teardown
\* largest min_image_count the surface reports; max_image_count is 0 (no
\* maximum declared) or lies between min_image_count and one above this bound
MaxMinImageCount == 3
\* images the platform may create beyond the number asked for
MaxExtraImages == 1
\* cap on the number of rebuilds
MaxRebuilds == 2

\* the capability pairs a surface may report
SurfaceCaps ==
    { c \in (1 .. MaxMinImageCount) \X (0 .. (MaxMinImageCount + 1)) :
         c[2] = 0 \/ c[2] >= c[1] }

\* u32::min
min_u32(x, y) == IF x < y THEN x ELSE y

\* variant: the declared maximum is not looked at
requested_image_count_no_max(caps) == caps[1] + 1

\* create_swapchain's image_count
requested_image_count(caps) ==
    IF caps[2] > 0 THEN min_u32(caps[2], caps[1] + 1) ELSE caps[1] + 1

\* a device object of swapchain generation g
Handle(kind, g, i) == << kind, g, i >>

\* the calls of one create_* loop, i running over lo .. hi
ForEach(name, kind, g, lo, hi) ==
    [ k \in 1 .. (hi - lo + 1) |-> Call(name, Handle(kind, g, lo + k - 1), "SUCCESS") ]

\* Swapchain::new for generation g with k images: create_swapchain, the image
\* views, the render pass, the framebuffers, the sync objects
new_calls(g, k) ==
    << Call("create_swapchain_khr", Handle("swapchain", g, 0), "SUCCESS") >>
    \o ForEach("create_image_view", "image_view", g, 1, k)
    \o << Call("create_render_pass", Handle("render_pass", g, 0), "SUCCESS") >>
    \o ForEach("create_framebuffer", "framebuffer", g, 1, k)
    \o ForEach("create_semaphore", "image_available", g, 0, MAX_FRAMES_IN_FLIGHT - 1)
    \o ForEach("create_semaphore", "render_finished", g, 0, MAX_FRAMES_IN_FLIGHT - 1)
    \o ForEach("create_fence", "fence", g, 0, MAX_FRAMES_IN_FLIGHT - 1)

\* the body of Drop's last loop for slot i
drop_sync_calls(g, i) ==
    << Call("destroy_fence", Handle("fence", g, i), "SUCCESS"),
       Call("destroy_semaphore", Handle("render_finished", g, i), "SUCCESS"),
       Call("destroy_semaphore", Handle("image_available", g, i), "SUCCESS") >>

RECURSIVE drop_sync_loop(_, _)
drop_sync_loop(g, i) ==
    IF i >= MAX_FRAMES_IN_FLIGHT THEN << >>
    ELSE drop_sync_calls(g, i) \o drop_sync_loop(g, i + 1)

\* variant: the framebuffers and the render pass go first, then the views and
\* the swapchain handle
drop_calls_framebuffers_first(g, k) ==
    ForEach("destroy_framebuffer", "framebuffer", g, 1, k)
    \o << Call("destroy_render_pass", Handle("render_pass", g, 0), "SUCCESS") >>
    \o ForEach("destroy_image_view", "image_view", g, 1, k)
    \o << Call("destroy_swapchain_khr", Handle("swapchain", g, 0), "SUCCESS") >>
    \o drop_sync_loop(g, 0)

\* impl Drop for Swapchain, for generation g with k images
drop_calls(g, k) ==
    ForEach("destroy_image_view", "image_view", g, 1, k)
    \o << Call("destroy_swapchain_khr", Handle("swapchain", g, 0), "SUCCESS") >>
    \o ForEach("destroy_framebuffer", "framebuffer", g, 1, k)
    \o << Call("destroy_render_pass", Handle("render_pass", g, 0), "SUCCESS") >>
    \o drop_sync_loop(g, 0)

\* the handles a list of calls names
HandlesOf(steps) == { steps[i].args : i \in DOMAIN steps }

\* the handles a list of destroy calls destroys although they are not alive,
\* or names more than once
BadDestroys(steps, live) ==
    { h \in HandlesOf(steps) :
         \/ h \notin live
         \/ Cardinality({ i \in DOMAIN steps : steps[i].args = h }) > 1 }

\* the old_swapchain member of the SwapchainCreateInfoKHR that create_swapchain
\* builds when `prev` is the swapchain alive at the time (<< >> when none is):
\* the builder is never given one, so the member is the null handle
create_info_old_swapchain(prev) == << >>

\* the surface before VRTRenderer::new constructs the first swapchain
SurfaceInit ==
    /\ FrameInit
    /\ BufferIdle
    /\ DescriptorIdle
    /\ AppIdle
    /\ surface_caps \in SurfaceCaps
    /\ swapchain_obj = [live |-> FALSE, gen |-> 0, images |-> 0]
    /\ handles_live = { }
    /\ handles_dead = { }
    /\ swapchain_last = [op |-> "args"]

\* the numbers of images get_swapchain_images_khr may return for a request
ImageCounts(n) == n .. (n + MaxExtraImages)

\* VRTRenderer::new: Swapchain::new(..)?
SwapchainNew ==
    /\ swapchain_last.op = "args"
    /\ \E k \in ImageCounts(requested_image_count(surface_caps)) :
          /\ swapchain_obj' = [live |-> TRUE, gen |-> 1, images |-> k]
          /\ handles_live' = handles_live \cup HandlesOf(new_calls(1, k))
          /\ swapchain_last' = [op |-> "new", res |-> "Ok",
                                image_count |-> requested_image_count(surface_caps),
                                caps |-> surface_caps, made |-> new_calls(1, k),
                                old_swapchain |-> create_info_old_swapchain(<< >>),
                                dropped |-> << >>, bad |-> { }]
    /\ UNCHANGED << surface_caps, handles_dead >>

\* recreate_swapchain once the extent is not degenerate: device_wait_idle,
\* self.swapchain = Swapchain::new(.., Some(old handle)).unwrap(); the
\* assignment drops the old value after the new one is constructed
SwapchainRecreate ==
    /\ swapchain_obj.live
    /\ swapchain_obj.gen <= MaxRebuilds
    /\ \E k \in ImageCounts(requested_image_count(surface_caps)) :
          LET g == swapchain_obj.gen + 1
              dropped == drop_calls(swapchain_obj.gen, swapchain_obj.images)
              live_mid == handles_live \cup HandlesOf(new_calls(g, k)) IN
          /\ swapchain_obj' = [live |-> TRUE, gen |-> g, images |-> k]
          /\ handles_live' = live_mid \ HandlesOf(dropped)
          /\ handles_dead' = handles_dead \cup HandlesOf(dropped)
          /\ swapchain_last' = [op |-> "recreate", res |-> "Ok",
                                image_count |-> requested_image_count(surface_caps),
                                caps |-> surface_caps, made |-> new_calls(g, k),
                                old_swapchain |-> create_info_old_swapchain(
                                   << Handle("swapchain", swapchain_obj.gen, 0) >>),
                                dropped |-> dropped,
                                bad |-> BadDestroys(dropped, live_mid)]
    /\ UNCHANGED surface_caps

\* the renderer is dropped when the event loop ends
SwapchainDrop ==
    /\ swapchain_obj.live
    /\ LET dropped == drop_calls(swapchain_obj.gen, swapchain_obj.images) IN
       /\ swapchain_obj' = [swapchain_obj EXCEPT !.live = FALSE]
       /\ handles_live' = handles_live \ HandlesOf(dropped)
       /\ handles_dead' = handles_dead \cup HandlesOf(dropped)
       /\ swapchain_last' = [op |-> "drop", res |-> "Ok", image_count |-> 0,
                             caps |-> surface_caps, made |-> << >>,
                             old_swapchain |-> << >>, dropped |-> dropped,
                             bad |-> BadDestroys(dropped, handles_live)]
    /\ UNCHANGED surface_caps

\* the platform reports other capabilities (the window moved to another
\* output, the compositor changed mode)
SurfaceCapsChange ==
    /\ swapchain_obj.live
    /\ \E c \in SurfaceCaps : c # surface_caps /\ surface_caps' = c
    /\ swapchain_last' = [swapchain_last EXCEPT !.op = "caps_change"]
    /\ UNCHANGED << swapchain_obj, handles_live, handles_dead >>

SurfaceNext ==
    \/ SwapchainNew /\ UNCHANGED << frame_vars, buffer_vars, descriptor_vars, app_vars >>
    \/ SwapchainRecreate /\ UNCHANGED << frame_vars, buffer_vars, descriptor_vars, app_vars >>
    \/ SwapchainDrop /\ UNCHANGED << frame_vars, buffer_vars, descriptor_vars, app_vars >>
    \/ SurfaceCapsChange /\ UNCHANGED << frame_vars, buffer_vars, descriptor_vars, app_vars >>

SurfaceSpec == SurfaceInit /\ [][SurfaceNext]_vars

\* ==================================================================== claims

\* C1  Alternation.  A begin_frame issued while a frame is started reports
\* FrameAlreadyStarted and changes neither is_frame_started, current_frame_index
\* nor image_index; so a begin_frame that returns a command buffer was issued
\* with no frame started, and a started frame is only closed by an end_frame
\* that ran to completion: two begin_frames never both succeed without one.
C1_Alternation ==
    [][ /\ (last'.op = "begin_frame" /\ is_frame_started)
            => /\ last'.res = "FrameAlreadyStarted"
               /\ last'.steps = << >>
               /\ UNCHANGED renderer_vars
        /\ (last'.op = "begin_frame" /\ last'.res = "Ok")
            => (~is_frame_started /\ is_frame_started')
        /\ (is_frame_started /\ ~is_frame_started')
            => (last'.op = "end_frame" /\ last'.res = "Ok") ]_vars

\* a second begin_frame has been refused while the first frame is still open
C1_Witness ==
    /\ last.op = "begin_frame"
    /\ last.res = "FrameAlreadyStarted"
    /\ is_frame_started

\* C3  Frame index wraparound.  From index 0, after k end_frame calls that ran
\* to completion the index is k mod N: 0 after N of them, 1 after N + 1.
C3_Wraparound ==
    /\ current_frame_index = ended % MAX_FRAMES_IN_FLIGHT
    /\ (ended = MAX_FRAMES_IN_FLIGHT => current_frame_index = 0)
    /\ (ended = MAX_FRAMES_IN_FLIGHT + 1 => current_frame_index = 1)

\* N + 1 frames have been ended
C3_Witness ==
    /\ ended = MAX_FRAMES_IN_FLIGHT + 1
    /\ current_frame_index = 1
    /\ last.op = "end_frame"

\* C4  end_frame while no frame is started is a no-op: it makes no API call
\* (no command buffer ended, nothing submitted or presented, no rebuild, the
\* resized flag not cleared) and changes no state of the renderer, the window,
\* the swapchain or the GPU queue.
C4_EndFrameIdleNoOp ==
    [][ (last'.op = "end_frame" /\ ~is_frame_started)
            => /\ last'.res = "NotStarted"
               /\ last'.steps = << >>
               /\ UNCHANGED << renderer_vars, window_vars, swapchain_vars,
                               inflight, status, ended >> ]_vars

\* end_frame has been called with no frame started while a resize was pending
C4_Witness ==
    /\ last.op = "end_frame"
    /\ last.res = "NotStarted"
    /\ ~is_frame_started
    /\ resized

\* the sync-object indices a call was given: fence and semaphores
SyncCalls == { "wait_for_fences", "acquire_next_image_khr", "reset_fences", "queue_submit" }

NoneInFlightFor(slot) == \A i \in DOMAIN inflight : inflight[i].slot # slot

\* C2  Fence-gated reuse.  While the CPU owns slot i (a frame is started on it:
\* its UBO is written, its command buffer re-recorded) no submission that reads
\* slot i is still in flight: begin_frame's fence wait has returned first, so
\* a CPU write and a GPU read of one slot never happen at once.
C2_FenceGatedReuse ==
    /\ (status = "running" /\ is_frame_started) => NoneInFlightFor(current_frame_index)
    /\ (last.op = "write_to_buffer") => NoneInFlightFor(last.slot)
    /\ (last.op = "begin_frame" /\ Called(last.steps, "begin_command_buffer"))
         => /\ NoneInFlightFor(last.slot)
            /\ FirstCall(last.steps, "wait_for_fences") > 0
            /\ FirstCall(last.steps, "wait_for_fences")
                 < FirstCall(last.steps, "begin_command_buffer")

\* slot 0 is written again after both slots have been submitted
C2_Witness ==
    /\ last.op = "write_to_buffer"
    /\ last.slot = 0
    /\ ended >= MAX_FRAMES_IN_FLIGHT

C6_RebuildOnFirstValidExtent ==
    /\ CountCalls(last.steps, "create_swapchain") <= 1
    /\ \A k \in DOMAIN last.steps :
          last.steps[k].call = "create_swapchain" => ~Degenerate(last.steps[k].args)
    /\ (status = "hung") => \A i \in DOMAIN events : Degenerate(events[i])

C8_ResizeHandOff ==
    [][ /\ (resized /\ ~resized')
            => /\ last'.op = "end_frame"
               /\ is_frame_started
               /\ Called(last'.steps, "reset_resized_flag")
        /\ (last'.op \in { "begin_frame", "begin_swapchain_render_pass",
                           "end_swapchain_render_pass", "write_to_buffer" })
            => resized' = resized
        /\ (last'.op = "end_frame" /\ is_frame_started /\ resized
              /\ last'.res \in { "Ok", "Hung" })
            => /\ ~resized'
               /\ CountCalls(last'.steps, "reset_resized_flag") = 1
               /\ CountCalls(last'.steps, "recreate_swapchain") = 1
               /\ (last'.res = "Ok" => CountCalls(last'.steps, "create_swapchain") = 1) ]_vars

\* an end_frame has consumed a pending resize
C8_Witness ==
    /\ last.op = "end_frame"
    /\ last.res = "Ok"
    /\ ~resized
    /\ CountCalls(last.steps, "reset_resized_flag") = 1
    /\ Called(last.steps, "queue_present_khr")
    /\ RetOf(last.steps, "queue_present_khr") = "SUCCESS"
    /\ swapchain_extent = get_extent

C10_SlotIdentity ==
    (last.op \in { "begin_frame", "end_frame" })
    => \A k \in DOMAIN last.steps :
          /\ (last.steps[k].call \in SyncCalls)
               => \A j \in DOMAIN last.steps[k].args : last.steps[k].args[j] = last.slot
          /\ (last.steps[k].call = "queue_present_khr")
               => last.steps[k].args[1] = last.slot

\* C11  Order inside submit_command_buffer.  The calls are reset_fences on the
\* in-flight fence, then queue_submit given that same fence, then
\* queue_present_khr, each at most once; a failed reset is followed by neither
\* submit nor present and a failed submit by no present; and a fence goes from
\* signaled to unsignaled only in an end_frame that called reset_fences, never
\* in begin_frame (acquire_next_image waits on the fence and leaves it alone).
C11_ResetSubmitPresent ==
    [][ /\ (last'.op = "end_frame")
            => LET st == last'.steps
                   r == FirstCall(st, "reset_fences")
                   q == FirstCall(st, "queue_submit")
                   p == FirstCall(st, "queue_present_khr") IN
               /\ \A name \in { "reset_fences", "queue_submit", "queue_present_khr" } :
                     CountCalls(st, name) <= 1
               /\ (q > 0) => /\ 0 < r /\ r < q
                             /\ st[r].ret = "SUCCESS"
                             /\ st[q].args[3] = st[r].args[1]
               /\ (p > 0) => /\ 0 < q /\ q < p
                             /\ st[q].ret = "SUCCESS"
               /\ (r > 0 /\ st[r].ret # "SUCCESS") => (q = 0 /\ p = 0)
               /\ (q > 0 /\ st[q].ret # "SUCCESS") => p = 0
        /\ (\E i \in Slots : in_flight_fences[i] /\ ~in_flight_fences'[i])
            => /\ last'.op = "end_frame"
               /\ Called(last'.steps, "reset_fences")
        /\ (last'.op = "begin_frame")
            => /\ ~Called(last'.steps, "reset_fences")
               /\ \A i \in Slots : in_flight_fences[i] => in_flight_fences'[i] ]_vars

\* an end_frame has reset the fence, submitted with it and presented, and the
\* fence is now unsignaled
C11_Witness ==
    /\ last.op = "end_frame"
    /\ FirstCall(last.steps, "reset_fences") = 2
    /\ FirstCall(last.steps, "queue_submit") = 3
    /\ FirstCall(last.steps, "queue_present_khr") = 4
    /\ ~in_flight_fences[last.steps[2].args[1]]

\* C12  Bounded frames in flight.  The submissions the GPU has not retired
\* (their fence still unsignaled) never number more than N = 2; and a
\* begin_frame that returns a command buffer for a slot has first waited for the
\* fence, so that slot's fence is signaled, nothing submitted for the slot is
\* still in flight, and fewer than N submissions are outstanding.
C12_AtMostNInFlight ==
    /\ Len(inflight) <= MAX_FRAMES_IN_FLIGHT
    /\ \A i \in DOMAIN inflight : ~in_flight_fences[inflight[i].fence]
    /\ (last.op = "begin_frame" /\ Called(last.steps, "begin_command_buffer"))
         => /\ in_flight_fences[last.slot]
            /\ NoneInFlightFor(last.slot)
            /\ Len(inflight) < MAX_FRAMES_IN_FLIGHT

\* the third begin_frame, reusing slot 0 after both slots were submitted, has
\* returned a command buffer
C12_Witness ==
    /\ last.op = "begin_frame"
    /\ last.res = "Ok"
    /\ ended = MAX_FRAMES_IN_FLIGHT
    /\ last.slot = 0
    /\ is_frame_started

\* C13  Sync objects after construction.  The swapchain always holds exactly N
\* in-flight fences, one per slot; right after a construction (the initial one
\* and every rebuild) all of them are signaled with nothing submitted through
\* the new swapchain, so the fence wait of the next begin_frame can return at
\* once although the GPU has completed nothing.
C13_FencesCreatedSignaled ==
    /\ DOMAIN in_flight_fences = Slots
    /\ Cardinality(DOMAIN in_flight_fences) = MAX_FRAMES_IN_FLIGHT
    /\ (last.op = "new" \/ (Called(last.steps, "create_swapchain") /\ status = "running"))
         => /\ \A i \in Slots : in_flight_fences[i]
            /\ inflight = << >>
            /\ sync_current_frame = 0
            /\ wait_for_fences

\* an end_frame has reset the fence, submitted, and then rebuilt the swapchain:
\* the fence of the new swapchain is signaled again
C13_Witness ==
    /\ last.op = "end_frame"
    /\ Called(last.steps, "queue_submit")
    /\ Called(last.steps, "create_swapchain")
    /\ \A i \in Slots : in_flight_fences[i]
    /\ ended >= 1

\* the buffer's constructor has computed alignment_size and buffer_size
buffer_built == buffer_last.op \notin { "args", "idle" }

\* C14  Alignment law.  For every instance size s and minimum alignment a >= 1,
\* powers of two or not, the alignment size computed for the buffer is a
\* multiple of a, is at least s, and equals s when a is 1.
C14_AlignmentLaw ==
    LET a == unwrap_or(min_offset_alignment, 1) IN
    (buffer_built /\ a >= 1)
    => /\ alignment_size % a = 0
       /\ alignment_size >= instance_size
       /\ (a = 1 => alignment_size = instance_size)

\* C15  For every instance size s and minimum alignment a >= 1 the alignment
\* size is ceil(s / a) * a, and the buffer's byte size is that value times
\* instance_count.
C15_CeilingTimesCount ==
    LET a == unwrap_or(min_offset_alignment, 1) IN
    (buffer_built /\ a >= 1)
    => /\ alignment_size = ((instance_size + a - 1) \div a) * a
       /\ buffer_size = ((instance_size + a - 1) \div a) * a * instance_count

\* C19  A write to a buffer that is not mapped at that moment (never mapped, or
\* unmapped since) fails with NotMapped and copies no bytes; a write that
\* succeeds was made while the buffer was mapped.
C19_WriteNeedsMapping ==
    (buffer_last.op = "write_to_buffer")
    => /\ (~buffer_last.mapped)
            => /\ buffer_last.res = "NotMapped"
               /\ buffer_last.bytes = 0
       /\ (buffer_last.res = "Ok") => buffer_last.mapped

\* C20  Flush before submit.  The UBO memory is not host-coherent, so every
\* host write to a slot's UBO is flushed before the frame that reads it is
\* submitted: an end_frame that submits a slot's command buffer, and every
\* submission still in flight, finds no unflushed write in that slot's UBO.
C20_FlushBeforeSubmit ==
    /\ (last.op = "end_frame" /\ Called(last.steps, "queue_submit"))
         => last.slot \notin ubo_unflushed
    /\ \A i \in DOMAIN inflight : inflight[i].slot \notin ubo_unflushed

\* the binding numbers the layout declares
declared_bindings == { layout_bindings[i].binding : i \in DOMAIN layout_bindings }

\* the binding numbers a list of writes names
written_bindings(ws) == { ws[i].dst_binding : i \in DOMAIN ws }

\* C16  Descriptor write completeness.  build() returns a set only when the
\* writes given to the writer name exactly the bindings the layout declares;
\* with a layout declaring bindings 0 and 1 and a write for binding 0 only it
\* fails and produces no set.
C16_WritesMatchLayout ==
    (descriptor_last.op = "build" /\ descriptor_last.res = "Some")
    => written_bindings(descriptor_last.given) = declared_bindings

\* C17  Pool budget.  The sets and descriptors handed out never exceed what the
\* pool was created with, and an allocation the pool cannot supply (directly or
\* through build) returns Exhausted instead of panicking.
C17_ExhaustedNotPanic ==
    /\ pool_sets <= pool_max_sets
    /\ Len(descriptor_sets) = pool_sets
    /\ \A ty \in DescriptorTypes : pool_used[ty] <= pool_sizes[ty]
    /\ (descriptor_last.op \in { "allocate_descriptor", "build" } /\ descriptor_last.exhausted)
         => descriptor_last.res = "Exhausted"

\* C18  One batched update.  A build that returns has allocated one set and
\* applied every accumulated write to it, none dropped, in one update call; a
\* build that fails has allocated and written nothing.
C18_OneSetAllWrites ==
    (descriptor_last.op = "build")
    => IF descriptor_last.res = "Some"
       THEN /\ descriptor_last.updates = 1
            /\ Len(descriptor_sets) = descriptor_last.set
            /\ Len(descriptor_last.applied) = Len(descriptor_last.given)
            /\ \A i \in DOMAIN descriptor_last.given :
                  descriptor_last.applied[i]
                    = [ descriptor_last.given[i] EXCEPT !.dst_set = descriptor_last.set ]
            /\ descriptor_sets[descriptor_last.set]
                  = written_bindings(descriptor_last.given)
       ELSE /\ descriptor_last.updates = 0
            /\ descriptor_last.applied = << >>
            /\ descriptor_last.set = 0

\* C21  Render-pass tracking.  A begin_swapchain_render_pass that records
\* cmd_begin_render_pass was called with no pass open, an
\* end_swapchain_render_pass that records cmd_end_render_pass was called with
\* a pass open (the nested and the unmatched call are refused and record
\* nothing), and so every command buffer that end_frame submits has its
\* render-pass begins and ends balanced.
C21_RenderPassBalanced ==
    /\ (last.op = "begin_swapchain_render_pass"
          /\ Called(last.steps, "cmd_begin_render_pass"))
         => cmd_render_pass = "open"
    /\ (last.op = "end_swapchain_render_pass"
          /\ Called(last.steps, "cmd_end_render_pass"))
         => cmd_render_pass = "none"
    /\ (last.op = "end_frame" /\ Called(last.steps, "queue_submit"))
         => cmd_render_pass = "none"

\* the position of a kind of object in the teardown order
teardown_rank(kind) ==
    CASE kind = "image_view" -> 1
      [] kind = "swapchain" -> 2
      [] kind = "framebuffer" -> 3
      [] kind = "render_pass" -> 4
      [] OTHER -> 5

\* the handles of kind `kind` a list of calls names
KindHandles(steps, kind) == { h \in HandlesOf(steps) : h[1] = kind }

\* C22: every teardown destroys all image views, then the swapchain handle,
\* then all framebuffers, then the render pass, then the per-slot fences and
\* semaphores; the K framebuffers and the N fences and 2N semaphores of the
\* torn-down swapchain all go in that teardown, nothing is destroyed twice or
\* after it was destroyed, and nothing of a torn-down swapchain stays alive.
C22_TeardownOrder ==
    swapchain_last.op \in { "recreate", "drop" } =>
       LET s == swapchain_last.dropped
           g == IF swapchain_last.op = "drop" THEN swapchain_obj.gen
                ELSE swapchain_obj.gen - 1 IN
       /\ \A i, j \in DOMAIN s :
             i < j => teardown_rank(s[i].args[1]) <= teardown_rank(s[j].args[1])
       /\ Cardinality(KindHandles(s, "swapchain")) = 1
       /\ Cardinality(KindHandles(s, "render_pass")) = 1
       /\ Cardinality(KindHandles(s, "framebuffer"))
             = Cardinality(KindHandles(s, "image_view"))
       /\ Cardinality(KindHandles(s, "framebuffer")) >= 1
       /\ Cardinality(KindHandles(s, "fence")) = MAX_FRAMES_IN_FLIGHT
       /\ Cardinality(KindHandles(s, "render_finished")) = MAX_FRAMES_IN_FLIGHT
       /\ Cardinality(KindHandles(s, "image_available")) = MAX_FRAMES_IN_FLIGHT
       /\ swapchain_last.bad = { }
       /\ \A h \in handles_live : h[2] # g
       /\ handles_live \cap handles_dead = { }

\* a rebuild has torn down a swapchain of three images
C22_Witness ==
    /\ swapchain_last.op = "recreate"
    /\ Cardinality(KindHandles(swapchain_last.dropped, "framebuffer")) = 3
    /\ Len(swapchain_last.dropped) = 8 + 3 * MAX_FRAMES_IN_FLIGHT

\* C24: a live swapchain has at least as many images as there are frame
\* slots, whatever capabilities the surface reports, after construction and
\* after every rebuild.
C24_SlotsWithinImages ==
    swapchain_obj.live => MAX_FRAMES_IN_FLIGHT <= swapchain_obj.images

\* C30: the image count asked of the platform is
\* min(max_image_count, min_image_count + 1) when max_image_count > 0 and
\* min_image_count + 1 otherwise.
C30_ImageCount ==
    swapchain_last.op \in { "new", "recreate" } =>
       LET lo == swapchain_last.caps[1]
           hi == swapchain_last.caps[2] IN
       /\ hi > 0 /\ hi <= lo + 1 => swapchain_last.image_count = hi
       /\ hi > 0 /\ hi > lo + 1 => swapchain_last.image_count = lo + 1
       /\ hi = 0 => swapchain_last.image_count = lo + 1

\* a rebuild asked for the declared maximum, which is below min_image_count + 1
C30_Witness ==
    /\ swapchain_last.op = "recreate"
    /\ swapchain_last.caps = << 2, 2 >>
    /\ swapchain_last.image_count = 2


\* C23: when begin_frame answers SwapChainExpired after an out-of-date
\* acquire, draw_frame skips the tick (no UBO write, no render pass, no
\* end_frame) and the loop stands ready for the next tick; it does not panic.
C23_RetrySkipsTick ==
    (last.op = "begin_frame" /\ last.res = "SwapChainExpired")
       => draw_frame_pc = "tick"


\* C25: a call of recreate_swapchain comes to an end: it has constructed one
\* swapchain, or it has given up with a fatal error; it is never left
\* spinning.
C25_RebuildTerminates ==
    Called(last.steps, "recreate_swapchain")
       => /\ status # "hung"
          /\ \/ CountCalls(last.steps, "create_swapchain") = 1
             \/ status = "panicked"


\* C26: current_frame_index is always in 0 .. N-1; it changes only in an
\* end_frame on a started frame, by +1 modulo N, and that end_frame leaves no
\* frame started; every end_frame on a started frame that returns advances it
\* so, with or without a rebuild; begin_frame (whatever it returns), end_frame
\* with no frame started and the render-pass calls leave it as it is.
C26_FrameIndexAdvance ==
    /\ [](current_frame_index \in 0 .. (MAX_FRAMES_IN_FLIGHT - 1))
    /\ [][ /\ (current_frame_index' # current_frame_index)
               => /\ last'.op = "end_frame"
                  /\ is_frame_started
                  /\ current_frame_index'
                       = (current_frame_index + 1) % MAX_FRAMES_IN_FLIGHT
                  /\ ~is_frame_started'
           /\ (last'.op = "end_frame" /\ is_frame_started /\ last'.res = "Ok")
               => /\ current_frame_index'
                       = (current_frame_index + 1) % MAX_FRAMES_IN_FLIGHT
                  /\ ~is_frame_started'
           /\ (last'.op = "end_frame" /\ ~is_frame_started)
               => UNCHANGED << current_frame_index, is_frame_started >>
           /\ (last'.op \in { "begin_frame", "begin_swapchain_render_pass",
                              "end_swapchain_render_pass" })
               => UNCHANGED current_frame_index ]_vars

\* the second end_frame has rebuilt the swapchain and wrapped the index to 0
C26_Witness ==
    /\ last.op = "end_frame"
    /\ last.res = "Ok"
    /\ Called(last.steps, "create_swapchain")
    /\ last.slot = MAX_FRAMES_IN_FLIGHT - 1
    /\ current_frame_index = 0
    /\ ~is_frame_started


\* C27: a begin_frame that succeeds begins the command buffer of the slot
\* current_frame_index; the end_frame of that frame ends that buffer; and
\* every command buffer submitted is the buffer of the slot of the frame that
\* submitted it.
C27_SlotCommandBuffer ==
    /\ (last.op = "begin_frame" /\ last.res = "Ok")
         => last.steps[FirstCall(last.steps, "begin_command_buffer")].args = << last.slot >>
    /\ (last.op = "end_frame" /\ Called(last.steps, "end_command_buffer"))
         => last.steps[FirstCall(last.steps, "end_command_buffer")].args = << last.slot >>
    /\ \A i \in DOMAIN inflight : inflight[i].cb = inflight[i].slot


\* C28: the render pass is begun on the framebuffer whose index is the image
\* index stored by the begin_frame of this frame, not the slot index; the
\* index given to the present of this frame's end_frame is that same index;
\* and only a begin_frame that acquired an image changes the stored index.
C28_AcquiredImageIndex ==
    [][ /\ (last'.op = "begin_swapchain_render_pass"
              /\ Called(last'.steps, "cmd_begin_render_pass"))
            => /\ last'.steps[FirstCall(last'.steps, "cmd_begin_render_pass")].args
                    = << image_index >>
               /\ UNCHANGED image_index
        /\ (last'.op = "end_frame" /\ Called(last'.steps, "queue_present_khr"))
            => /\ last'.steps[FirstCall(last'.steps, "queue_present_khr")].args[2]
                    = image_index
               /\ UNCHANGED image_index
        /\ (image_index' # image_index)
            => /\ last'.op = "begin_frame"
               /\ RetOf(last'.steps, "acquire_next_image_khr") = "SUCCESS" ]_vars

\* the frame of slot 0 has been presented with image 1
C28_Witness ==
    /\ last.op = "end_frame"
    /\ last.slot = 0
    /\ Called(last.steps, "queue_present_khr")
    /\ last.steps[FirstCall(last.steps, "queue_present_khr")].args[2] = 1
    /\ image_index = 1


\* C29: an acquire that reports ERROR_OUT_OF_DATE_KHR has waited on a signaled
\* fence and made no other call than the wait and the acquisition: no
\* reset_fences, nothing created or destroyed before recreate_swapchain is
\* entered; while the rebuild that follows has not replaced the swapchain, the
\* sync objects, the extent and the GPU queue are as before and the slot's
\* fence is signaled.
C29_StaleAcquireNoEffect ==
    [][ ( /\ last'.op = "begin_frame"
          /\ Called(last'.steps, "acquire_next_image_khr")
          /\ RetOf(last'.steps, "acquire_next_image_khr") = "ERROR_OUT_OF_DATE_KHR" )
        => /\ in_flight_fences[sync_slot]
           /\ \A k \in 1 .. (FirstCall(last'.steps, "recreate_swapchain") - 1) :
                 last'.steps[k].call \in { "wait_for_fences", "acquire_next_image_khr" }
           /\ ~Called(last'.steps, "reset_fences")
           /\ ~Called(last'.steps, "create_swapchain")
                => /\ UNCHANGED << swapchain_vars, inflight >>
                   /\ in_flight_fences'[sync_slot]
                   /\ in_flight_fences'[current_frame_index'] ]_vars

\* an out-of-date acquire whose rebuild has constructed nothing
C29_Witness ==
    /\ last.op = "begin_frame"
    /\ Called(last.steps, "acquire_next_image_khr")
    /\ RetOf(last.steps, "acquire_next_image_khr") = "ERROR_OUT_OF_DATE_KHR"
    /\ ~Called(last.steps, "create_swapchain")
    /\ in_flight_fences[sync_slot]


\* C31: a rebuild constructs the new swapchain with the handle of the previous
\* one as old_swapchain, tears the previous one down only after the new one
\* exists (every handle it destroys was alive beside the new ones), and
\* leaves no handle of the previous swapchain alive.
C31_RebuildReplacesWholesale ==
    swapchain_last.op = "recreate" =>
       /\ swapchain_last.old_swapchain
             = << Handle("swapchain", swapchain_obj.gen - 1, 0) >>
       /\ swapchain_last.bad = { }
       /\ Len(swapchain_last.made) > 0 /\ Len(swapchain_last.dropped) > 0
       /\ \A h \in HandlesOf(swapchain_last.made) : h[2] = swapchain_obj.gen
       /\ \A h \in HandlesOf(swapchain_last.dropped) : h[2] = swapchain_obj.gen - 1
       /\ \A h \in handles_live : h[2] = swapchain_obj.gen


\* C32: the bytes a write copies lie within the buffer: the first byte written
\* plus the number of bytes copied does not exceed buffer_size, and a write
\* that would exceed it copies nothing.
C32_WriteWithinBuffer ==
    (buffer_last.op = "write_to_buffer")
    => buffer_last.first + buffer_last.bytes <= buffer_size


\* C33: in every frame the acquisition is given the image-available semaphore
\* that the frame's submit waits on before it writes the color attachment,
\* the present waits on the render-finished semaphore that this submit
\* signals and comes after it, and a frame has one acquisition, at most one
\* submit and at most one present; the semaphores in use do not change while
\* a frame is started.
C33_SemaphoreOrder ==
    [][ /\ (last'.op = "begin_frame" /\ last'.res \in { "Ok", "Vk" })
            => /\ CountCalls(last'.steps, "acquire_next_image_khr") = 1
               /\ RetOf(last'.steps, "acquire_next_image_khr") = "SUCCESS"
               /\ last'.steps[FirstCall(last'.steps, "acquire_next_image_khr")].args
                    = << sync_current_frame' >>
               /\ ~is_frame_started /\ is_frame_started'
        /\ (is_frame_started /\ is_frame_started') => UNCHANGED sync_current_frame
        /\ (last'.op = "end_frame" /\ Called(last'.steps, "queue_submit"))
            => LET st == last'.steps
                   q == FirstCall(st, "queue_submit")
                   p == FirstCall(st, "queue_present_khr") IN
               /\ is_frame_started
               /\ CountCalls(st, "queue_submit") = 1
               /\ CountCalls(st, "queue_present_khr") <= 1
               /\ ~Called(st, "acquire_next_image_khr")
               /\ st[q].args[1] = sync_current_frame
               /\ st[q].args[2] = sync_current_frame
               /\ (p > 0) => /\ q < p
                             /\ st[q].ret = "SUCCESS"
                             /\ st[p].args[1] = st[q].args[2]
        /\ Called(last'.steps, "queue_present_khr")
            => Called(last'.steps, "queue_submit") ]_vars

\* the frame of slot 1 has been submitted and presented
C33_Witness ==
    /\ last.op = "end_frame"
    /\ last.slot = 1
    /\ Called(last.steps, "queue_submit")
    /\ Called(last.steps, "queue_present_khr")
    /\ RetOf(last.steps, "queue_present_khr") = "SUCCESS"


\* C34: every write a writer has accepted names a binding number the layout
\* declares and carries the descriptor type the layout declares for that
\* number.
C34_WriteBufferValidated ==
    \A i \in DOMAIN writes :
       /\ writes[i].dst_binding \in declared_bindings
       /\ \A j \in DOMAIN layout_bindings :
             layout_bindings[j].binding = writes[i].dst_binding
                => layout_bindings[j].descriptor_type = writes[i].descriptor_type


\* C35: a begin_frame that returned an error other than FrameAlreadyStarted
\* has left no frame started; a begin_frame that returned a command buffer
\* has left one started.
C35_ErrorLeavesIdle ==
    (last.op = "begin_frame")
    => /\ (last.res \notin { "Ok", "FrameAlreadyStarted" }) => ~is_frame_started
       /\ (last.res = "Ok") => is_frame_started


\* the fence the next begin_frame waits on is signaled, or a submission still
\* in flight was given it and will signal it
fence_will_signal ==
    \/ in_flight_fences[sync_slot]
    \/ \E i \in DOMAIN inflight : inflight[i].fence = sync_slot

\* C36: with a GPU that completes every submission, a begin_frame returns a
\* command buffer or the retry signal: it is never left waiting, neither on a
\* fence that no submission in flight will signal nor inside the rebuild it
\* started.
C36_BeginFrameReturns ==
    /\ (status = "running") => fence_will_signal
    /\ (last.op = "begin_frame") => status # "hung"


\* C37: whenever no frame is started and the resized flag is clear, the
\* swapchain has the extent the last resize_callback stored; resize_callback
\* sets the flag at whatever point it runs; the flag is cleared only by an
\* end_frame on a started frame that calls recreate_swapchain with the stored
\* extent; and every end_frame on a started frame that returns leaves the
\* flag clear and the swapchain at the stored extent.
C37_NoResizeLost ==
    /\ [](~is_frame_started /\ ~resized => swapchain_extent = get_extent)
    /\ [][ /\ (last'.op = "resize_callback") => resized'
           /\ (resized /\ ~resized')
               => /\ last'.op = "end_frame"
                  /\ is_frame_started
                  /\ CountCalls(last'.steps, "recreate_swapchain") = 1
                  /\ last'.steps[FirstCall(last'.steps, "recreate_swapchain")].args
                       = get_extent
           /\ (last'.op = "end_frame" /\ is_frame_started /\ last'.res = "Ok")
               => /\ ~resized'
                  /\ resized => Called(last'.steps, "create_swapchain")
                  /\ swapchain_extent' = get_extent ]_vars

\* a resize to the other orientation has been consumed by an end_frame, which
\* rebuilt the swapchain at the new extent
C37_Witness ==
    /\ last.op = "end_frame"
    /\ last.res = "Ok"
    /\ Called(last.steps, "reset_resized_flag")
    /\ swapchain_extent = << WINDOW_HEIGHT, WINDOW_WIDTH >>
    /\ get_extent = << WINDOW_HEIGHT, WINDOW_WIDTH >>
    /\ ~resized
    /\ ~is_frame_started


\* C38: a rebuild that constructs a swapchain has left the extent loop with a
\* non-degenerate extent, then waited for the device to be idle, and only
\* then constructed; when the old swapchain is replaced no submission is in
\* flight, the one made by the same end_frame included.
C38_IdleBeforeReplace ==
    [][ Called(last'.steps, "create_swapchain")
        => LET st == last'.steps
               r == FirstCall(st, "recreate_swapchain")
               w == FirstCall(st, "device_wait_idle")
               c == FirstCall(st, "create_swapchain") IN
           /\ 0 < r /\ r < w /\ w + 1 = c
           /\ st[w].ret = "SUCCESS"
           /\ ~Degenerate(st[c].args)
           /\ \A k \in DOMAIN st :
                 st[k].call \in { "queue_submit", "queue_present_khr" } => k < w
           /\ inflight' = << >> ]_vars

\* an end_frame has submitted its frame and then replaced the swapchain
C38_Witness ==
    /\ last.op = "end_frame"
    /\ Called(last.steps, "queue_submit")
    /\ RetOf(last.steps, "queue_submit") = "SUCCESS"
    /\ Called(last.steps, "device_wait_idle")
    /\ Called(last.steps, "create_swapchain")
    /\ inflight = << >>


\* C39: whenever begin_swapchain_render_pass records a render-pass begin, the
\* framebuffer index it uses is the stored image index, is below the number
\* of framebuffers and was acquired from the swapchain now in place, not from
\* one a rebuild has replaced; and the two render-pass calls made while no
\* frame is started record nothing and change nothing.
C39_RenderPassImageIndex ==
    /\ []( (last.op = "begin_swapchain_render_pass"
              /\ Called(last.steps, "cmd_begin_render_pass"))
           => /\ image_acquired_from = "current"
              /\ image_index < NumImages
              /\ last.steps[FirstCall(last.steps, "cmd_begin_render_pass")].args
                   = << image_index >> )
    /\ [][ ( /\ last'.op \in { "begin_swapchain_render_pass",
                                "end_swapchain_render_pass" }
             /\ ~is_frame_started )
           => /\ last'.steps = << >>
              /\ UNCHANGED << renderer_vars, window_vars, swapchain_vars, inflight,
                              events, status, ended, ubo_unflushed, cmd_render_pass,
                              image_acquired_from >> ]_vars

\* the second frame begins its render pass on image 1
C39_Witness ==
    /\ last.op = "begin_swapchain_render_pass"
    /\ Called(last.steps, "cmd_begin_render_pass")
    /\ image_acquired_from = "current"
    /\ image_index = 1
    /\ ended = 1

====
